---- MODULE Spec2Model ----
(***************************************************************************)
(* UnlimitedWorlds: a step-based grid world.  The model follows            *)
(* src/src/unlimitedworlds/{grid,entity,agent,actions,world}.py and the    *)
(* package module src/src/unlimitedworlds/__init__.py.                     *)
(*                                                                         *)
(* Python values are modelled as follows: None is the empty tuple; a Pos   *)
(* is a pair <<x, y>>; an Action or Event is a record [name, data] whose   *)
(* data is a record (the empty dict is the empty tuple); a dict is a       *)
(* function; a raised exception is the name of its class in the result of  *)
(* the operation.                                                          *)
(***************************************************************************)
EXTENDS Integers, Sequences, FiniteSets, TLC

\* ------------------------------------------------------------------ bounds
MaxAgents == 2      \* Agent objects constructed in a run of Spec
CrowdAgents == 4    \* Agent objects constructed in a run of SpecCrowd
MaxTick == 2        \* tick() calls on one World
GridW == 2          \* width of the grid handed to World() in Spec
GridH == 2          \* height of the grid handed to World() in Spec
MaxSystems == 2     \* add_system() calls on one World
SysAgents == 2      \* Agent objects constructed in a run of SpecSys
SysW == 2           \* width of the one-row grid of SpecSys
CrowdW == 2         \* width of the one-row grid of SpecCrowd
PkgAgents == 2      \* Agent objects constructed in a run of SpecPkg
PkgW == 2           \* width of the one-row grid of SpecPkg
DetAgents == 4      \* Agent objects constructed in a run of SpecDet
DetW == 2           \* width of the one-row grid of SpecDet
OpsAgents == 2      \* Agent objects constructed in a run of SpecOps
OpsW == 2           \* width of the one-row grid of SpecOps
MsgAgents == 3      \* Agent objects constructed in a run of SpecMsg
MsgW == 1           \* width of the one-row grid of SpecMsg
MaxPayload == 3     \* length of the longest payload a caller sends
MaxRadius == 2      \* largest sensor radius the footprint is stated for
ResetAgents == 1    \* Agent objects constructed in a run of SpecReset
ResetW == 1         \* width of the one-row grid of SpecReset
UidAgents == 2      \* Agent objects constructed in a run of SpecUid
UidW == 2           \* width of the one-row grid of SpecUid
TilesW == 3         \* largest width of the grid of SpecGrid
TilesH == 2         \* largest height of the grid of SpecGrid
SeeAgents == 2      \* Agent objects constructed in a run of SpecSee
SeeW == 3           \* width of the one-row grid of SpecSee
AttachAgents == 2   \* Agent objects constructed in a run of SpecAttach
AttachW == 1        \* width of the one-row grid of SpecAttach
ValidAgents == 2    \* Agent objects constructed in a run of SpecValid

None == <<>>
AgentBounds ==
  {MaxAgents, CrowdAgents, SysAgents, PkgAgents, DetAgents, OpsAgents,
   MsgAgents, ResetAgents, UidAgents, SeeAgents, AttachAgents,
   ValidAgents}
PoolSize == CHOOSE n \in AgentBounds : \A m \in AgentBounds : m <= n
Objs == 1..PoolSize      \* the Agent objects a run constructs, in order
Worlds == {1, 2}         \* the World objects a run constructs
TheWorld == CHOOSE w \in Worlds : \A v \in Worlds : w <= v

VARIABLES
  grid,        \* the Grid object: [width, height, tiles]
  next_uid,    \* Entity._next_uid (entity.py)
  pkg_next_uid,\* Agent._next_uid of the package module (__init__.py)
  uid,         \* obj -> Entity.uid (0: the object is not constructed yet)
  agent_world, \* obj -> Entity.world (0: None, else the World it is attached to)
  pos,         \* obj -> Entity.pos (None or a Pos)
  queued,      \* obj -> Agent._queued_action (None or an Action)
  worlds,      \* world -> [tick, agents, systems, seed, rng]: the World objects
  submitted,   \* obj -> the last action handed to act() since the slot was last taken
  last         \* the last operation: its arguments, the state before it, its result

vars == <<grid, next_uid, pkg_next_uid, uid, agent_world, pos, queued, worlds, submitted, last>>

\* ------------------------------------------------------------- actions.py
Dirs == {"N", "E", "S", "W"}

DirDx(d) == CASE d = "N" -> 0 [] d = "E" -> 1 [] d = "S" -> 0 [] d = "W" -> -1

DirDy(d) == CASE d = "N" -> -1 [] d = "E" -> 0 [] d = "S" -> 1 [] d = "W" -> 0

Action(name, data) == [name |-> name, data |-> data]

move(direction) == Action("move", [dir |-> direction])

wait == Action("wait", <<>>)

\* ---------------------------------------------------------------- grid.py
GridNew(w, h) ==
  [width |-> w, height |-> h, tiles |-> [i \in 0..(w * h - 1) |-> "Floor"]]

TileWalkable(tile) == tile = "Floor"

in_bounds(g, p) ==
  /\ 0 <= p[1] /\ p[1] < g.width
  /\ 0 <= p[2] /\ p[2] < g.height

GridIdx(g, p) == p[2] * g.width + p[1]

\* get(): the tile, or the exception raised
GridGet(g, p) == IF ~in_bounds(g, p) THEN "IndexError" ELSE g.tiles[GridIdx(g, p)]

\* a variant of set without the bounds check: the list index decides, and a
\* negative index counts from the end of the list
GridSetByIndex(g, p, tile) ==
  LET n == g.width * g.height
      i == GridIdx(g, p)
  IN IF i < -n \/ i >= n
     THEN [ok |-> FALSE, exc |-> "IndexError", grid |-> g]
     ELSE [ok |-> TRUE, exc |-> None,
           grid |-> [g EXCEPT !.tiles = [g.tiles EXCEPT ![i % n] = tile]]]

\* set(): [ok, exc, grid]
GridSet(g, p, tile) ==
  IF ~in_bounds(g, p)
  THEN [ok |-> FALSE, exc |-> "IndexError", grid |-> g]
  ELSE [ok |-> TRUE, exc |-> None,
        grid |-> [g EXCEPT !.tiles = [g.tiles EXCEPT ![GridIdx(g, p)] = tile]]]

\* a variant of is_walkable that only looks at the bounds
is_walkable_bounds_only(g, p) == in_bounds(g, p)

\* is_walkable(): a boolean, or the exception get() raised
is_walkable(g, p) ==
  IF ~in_bounds(g, p) THEN FALSE
  ELSE LET t == GridGet(g, p)
       IN IF t = "IndexError" THEN "IndexError" ELSE TileWalkable(t)

\* --------------------------------------------------------------- entity.py
\* Entity.__init__ / Agent.__init__: [uid, next_uid, world, pos, queued]
AgentNew(counter) ==
  [uid |-> counter, next_uid |-> counter + 1, world |-> 0, pos |-> None,
   queued |-> None]

\* ---------------------------------------------------------------- agent.py
\* a variant of Agent.act that keeps an action already held
AgentActKeepFirst(slot, action) == IF slot = None THEN action ELSE slot

\* Agent.act: the new content of the slot
AgentAct(slot, action) == action

\* Agent._take_queued_action: [action, slot]
TakeQueuedAction(slot) == [action |-> slot, slot |-> None]

\* ------------------------------------------------------- helpers over dicts
Range(s) == {s[i] : i \in DOMAIN s}

DictPut(d, k, v) == [x \in (DOMAIN d) \cup {k} |-> IF x = k THEN v ELSE d[x]]

DictGet(d, k) == IF k \in DOMAIN d THEN d[k] ELSE None

EmptyDict == <<>>

RECURSIVE SortedByUid(_, _)
\* sorted(agents, key=uid): stable, ascending
SortedByUid(s, u) ==
  IF s = <<>> THEN <<>>
  ELSE LET h == Head(s)
           rest == SortedByUid(Tail(s), u)
           before == SelectSeq(rest, LAMBDA a : u[a] < u[h])
           after == SelectSeq(rest, LAMBDA a : u[a] >= u[h])
       IN before \o <<h>> \o after

\* ---------------------------------------------------------------- world.py
Event(name, data) == [name |-> name, data |-> data]

WorldNew(entropy) ==
  [tick |-> 0, agents |-> <<>>, systems |-> <<>>, seed |-> 0,
   rng |-> [seed |-> entropy, n |-> 0], collision_policy |-> "BLOCK"]

\* random.Random.random(): the n-th draw of the generator seeded with seed
RngRandom(rng) == [x |-> <<rng.seed, rng.n>>, rng |-> [rng EXCEPT !.n = @ + 1]]

\* a variant of World.reset that keeps the generator it had
WorldResetKeepRng(W, seed, entropy) ==
  [W EXCEPT !.seed = seed, !.tick = 0, !.agents = <<>>]

\* a variant of World.reset that keeps the roster
WorldResetKeepRoster(W, seed, entropy) ==
  [W EXCEPT !.seed = seed,
            !.rng = [seed |-> IF seed # 0 THEN seed ELSE entropy, n |-> 0],
            !.tick = 0]

\* World.reset(seed): seed 0 stands for None, entropy for the system's entropy
WorldReset(W, seed, entropy) ==
  [W EXCEPT !.seed = seed,
            !.rng = [seed |-> IF seed # 0 THEN seed ELSE entropy, n |-> 0],
            !.tick = 0,
            !.agents = <<>>]

\* World.add_system
WorldAddSystem(W, system) == [W EXCEPT !.systems = Append(@, system)]

\* a variant of World.spawn without the walkability check
WorldSpawnUnchecked(W, w, g, a, aw, ap, at) ==
  IF aw # 0
  THEN [ok |-> FALSE, exc |-> "ValueError", W |-> W, world |-> aw, pos |-> ap]
  ELSE [ok |-> TRUE, exc |-> None, W |-> [W EXCEPT !.agents = Append(@, a)],
        world |-> w, pos |-> at]

\* a variant of World.spawn without the test of agent.world
WorldSpawnAgain(W, w, g, a, aw, ap, at) ==
  IF ~is_walkable(g, at)
  THEN [ok |-> FALSE, exc |-> "ValueError", W |-> W, world |-> aw, pos |-> ap]
  ELSE [ok |-> TRUE, exc |-> None, W |-> [W EXCEPT !.agents = Append(@, a)],
        world |-> w, pos |-> at]

\* World.spawn: [ok, exc, W, world, pos] (world, pos: the agent's fields after)
WorldSpawn(W, w, g, a, aw, ap, at) ==
  IF aw # 0
  THEN [ok |-> FALSE, exc |-> "ValueError", W |-> W, world |-> aw, pos |-> ap]
  ELSE IF ~is_walkable(g, at)
  THEN [ok |-> FALSE, exc |-> "ValueError", W |-> W, world |-> aw, pos |-> ap]
  ELSE [ok |-> TRUE, exc |-> None, W |-> [W EXCEPT !.agents = Append(@, a)],
        world |-> w, pos |-> at]

RECURSIVE SnapshotPositionsByPlace(_, _, _)
\* a variant of the positions comprehension keyed by the place in the roster
SnapshotPositionsByPlace(agents, u, p) ==
  IF agents = <<>> THEN EmptyDict
  ELSE LET n == Len(agents)
           a == agents[n]
           d == SnapshotPositionsByPlace(SubSeq(agents, 1, n - 1), u, p)
       IN IF p[a] = None THEN d ELSE DictPut(d, n, p[a])

RECURSIVE SnapshotPositions(_, _, _)
\* {a.uid: a.pos for a in self._agents if a.pos is not None}
SnapshotPositions(agents, u, p) ==
  IF agents = <<>> THEN EmptyDict
  ELSE LET n == Len(agents)
           a == agents[n]
           d == SnapshotPositions(SubSeq(agents, 1, n - 1), u, p)
       IN IF p[a] = None THEN d ELSE DictPut(d, u[a], p[a])

\* a variant of World.snapshot that reports the tick before the current one
WorldSnapshotStaleTick(W, u, p) ==
  [tick |-> IF W.tick > 0 THEN W.tick - 1 ELSE 0,
   positions |-> SnapshotPositions(W.agents, u, p)]

\* World.snapshot
WorldSnapshot(W, u, p) ==
  [tick |-> W.tick, positions |-> SnapshotPositions(W.agents, u, p)]

\* --------------------------------------------- systems (tests/test_*.py)
\* The System subclasses of the test suite; a hook takes and returns the
\* TickContext fields it touches: [events, rng].
SystemKinds == {"SysA", "SysB", "HelloSystem", "RngSystem"}

SysName(kind) == IF kind = "SysA" THEN "sysA" ELSE "sysB"

HookSuffix(hook) ==
  CASE hook = "pre_tick" -> ".pre" [] hook = "resolve" -> ".resolve"
    [] hook = "post_tick" -> ".post"

\* one hook of one system
SystemHook(kind, hook, ctx) ==
  CASE kind \in {"SysA", "SysB"} ->
         [ctx EXCEPT !.events =
            Append(@, Event(SysName(kind) \o HookSuffix(hook), <<>>))]
    [] kind = "HelloSystem" /\ hook = "post_tick" ->
         [ctx EXCEPT !.events = Append(@, Event("hello", <<>>))]
    [] kind = "RngSystem" /\ hook = "post_tick" ->
         LET r == RngRandom(ctx.rng)
         IN [events |-> Append(ctx.events, Event("rng", [x |-> r.x])),
             rng |-> r.rng]
    [] OTHER -> ctx

RECURSIVE RunHooksReversed(_, _, _)
\* a variant of the hook loop that goes through the systems last to first
RunHooksReversed(systems, hook, ctx) ==
  IF systems = <<>> THEN ctx
  ELSE LET n == Len(systems)
       IN RunHooksReversed(SubSeq(systems, 1, n - 1), hook,
                           SystemHook(systems[n], hook, ctx))

RECURSIVE RunHooks(_, _, _)
\* for system in self.systems: system.<hook>(self, ctx)
RunHooks(systems, hook, ctx) ==
  IF systems = <<>> THEN ctx
  ELSE RunHooks(Tail(systems), hook, SystemHook(Head(systems), hook, ctx))

\* ----------------------------------------------------- World.tick, by phase
WaitAction == Action("wait", <<>>)

RECURSIVE CollectActions(_, _, _)
\* the uid -> Action dict of the tick: an empty slot is a "wait"
CollectActions(sorted, u, q) ==
  IF sorted = <<>> THEN EmptyDict
  ELSE LET n == Len(sorted)
           a == sorted[n]
           taken == TakeQueuedAction(q[a]).action
           act == IF taken = None THEN WaitAction ELSE taken
       IN DictPut(CollectActions(SubSeq(sorted, 1, n - 1), u, q), u[a], act)

\* the slots after every rostered agent's slot was taken
ClearSlots(agents, q) ==
  [a \in DOMAIN q |-> IF a \in Range(agents) THEN TakeQueuedAction(q[a]).slot ELSE q[a]]

RECURSIVE PositionsDict(_, _, _)
\* positions = {a.uid: a.pos for a in sorted_agents if a.pos is not None}
PositionsDict(sorted, u, p) ==
  IF sorted = <<>> THEN EmptyDict
  ELSE LET n == Len(sorted)
           a == sorted[n]
           d == PositionsDict(SubSeq(sorted, 1, n - 1), u, p)
       IN IF p[a] = None THEN d ELSE DictPut(d, u[a], p[a])

\* act.data["dir"] raises KeyError when the payload has no "dir"
MoveHasDir(act) == "dir" \in DOMAIN act.data

MoveTarget(p, d) == <<p[1] + DirDx(d), p[2] + DirDy(d)>>

RECURSIVE PlanMovesUnchecked(_, _, _, _, _)
\* a variant of the planning loop that desires every target, walkable or not
PlanMovesUnchecked(sorted, u, p, actions, g) ==
  IF sorted = <<>> THEN [ok |-> TRUE, desired |-> EmptyDict, blocked |-> EmptyDict]
  ELSE LET n == Len(sorted)
           a == sorted[n]
           r == PlanMovesUnchecked(SubSeq(sorted, 1, n - 1), u, p, actions, g)
           act == actions[u[a]]
       IN IF ~r.ok \/ p[a] = None \/ act.name # "move" THEN r
          ELSE IF ~MoveHasDir(act) THEN [r EXCEPT !.ok = FALSE]
          ELSE [r EXCEPT !.desired = DictPut(@, u[a], MoveTarget(p[a], act.data.dir))]

RECURSIVE PlanMoves(_, _, _, _, _)
\* the loop filling desired_moves and blocked_targets: [ok, desired, blocked]
PlanMoves(sorted, u, p, actions, g) ==
  IF sorted = <<>> THEN [ok |-> TRUE, desired |-> EmptyDict, blocked |-> EmptyDict]
  ELSE LET n == Len(sorted)
           a == sorted[n]
           r == PlanMoves(SubSeq(sorted, 1, n - 1), u, p, actions, g)
           act == actions[u[a]]
       IN IF ~r.ok \/ p[a] = None \/ act.name # "move" THEN r
          ELSE IF ~MoveHasDir(act) THEN [r EXCEPT !.ok = FALSE]
          ELSE LET nxt == MoveTarget(p[a], act.data.dir)
               IN IF is_walkable(g, nxt)
                  THEN [r EXCEPT !.desired = DictPut(@, u[a], nxt)]
                  ELSE [r EXCEPT !.blocked = DictPut(@, u[a], nxt)]

\* a variant of the contention rule that lets the lowest uid through
ContentionLowestWins(desired) ==
  {x \in DOMAIN desired :
     \E y \in DOMAIN desired : desired[y] = desired[x] /\ y < x}

\* contention: every uid whose target is the target of more than one uid
ContentionUids(desired) ==
  {x \in DOMAIN desired :
     Cardinality({y \in DOMAIN desired : desired[y] = desired[x]}) > 1}

\* pos_to_uid = {pos: uid for uid, pos in positions.items()}: the last uid
\* in the dict's (ascending) order wins a cell
PosToUid(positions) ==
  [c \in {positions[x] : x \in DOMAIN positions} |->
     CHOOSE x \in DOMAIN positions :
       /\ positions[x] = c
       /\ \A y \in DOMAIN positions : positions[y] = c => y <= x]

\* a variant of the swap rule that stops every mover into an occupied cell
SwapAnyOccupied(desired, positions) ==
  {x \in DOMAIN desired :
     \E y \in DOMAIN positions : y # x /\ positions[y] = desired[x]}

\* swap: uid and the uid pos_to_uid gives for its target, when that one's
\* target is uid's position
SwapUids(desired, positions) ==
  LET pos_to_uid == PosToUid(positions)
      hit(x) ==
        /\ desired[x] \in DOMAIN pos_to_uid
        /\ LET other_uid == pos_to_uid[desired[x]]
           IN /\ other_uid # x
              /\ DictGet(desired, other_uid) = DictGet(positions, x)
  IN UNION {{x, pos_to_uid[desired[x]]} : x \in {y \in DOMAIN desired : hit(y)}}

CollisionUids(policy, desired, positions) ==
  IF policy = "BLOCK"
  THEN ContentionUids(desired) \cup SwapUids(desired, positions)
  ELSE {}

\* a variant of the apply loop body that drops an action it does not know
ApplyOneDropUnknown(x, ap, act, policy, desired, blocked, collision_uids) ==
  IF act.name = "wait"
  THEN [pos |-> ap, events |-> <<Event("waited", [agent |-> x])>>]
  ELSE IF act.name = "move"
  THEN IF x \in DOMAIN blocked
       THEN [pos |-> ap,
             events |-> <<Event("blocked", [agent |-> x, to |-> blocked[x]])>>]
       ELSE IF x \in collision_uids /\ policy = "BLOCK"
       THEN [pos |-> ap,
             events |-> <<Event("collision", [agent |-> x, to |-> desired[x]])>>]
       ELSE IF DictGet(desired, x) # None
       THEN [pos |-> desired[x],
             events |-> <<Event("moved", [agent |-> x, to |-> desired[x]])>>]
       ELSE [pos |-> ap, events |-> <<>>]
  ELSE [pos |-> ap, events |-> <<>>]

\* a variant of the apply loop body that moves an agent of the collision set
ApplyOneMoveOnCollision(x, ap, act, policy, desired, blocked, collision_uids) ==
  IF act.name = "wait"
  THEN [pos |-> ap, events |-> <<Event("waited", [agent |-> x])>>]
  ELSE IF act.name = "move"
  THEN IF x \in DOMAIN blocked
       THEN [pos |-> ap,
             events |-> <<Event("blocked", [agent |-> x, to |-> blocked[x]])>>]
       ELSE IF x \in collision_uids /\ policy = "BLOCK"
       THEN [pos |-> desired[x],
             events |-> <<Event("collision", [agent |-> x, to |-> desired[x]])>>]
       ELSE IF DictGet(desired, x) # None
       THEN [pos |-> desired[x],
             events |-> <<Event("moved", [agent |-> x, to |-> desired[x]])>>]
       ELSE [pos |-> ap, events |-> <<>>]
  ELSE [pos |-> ap,
        events |-> <<Event("unknown_action", [agent |-> x, name |-> act.name])>>]

\* one agent of the apply loop: [pos, events] (pos: the agent's position after)
ApplyOne(x, ap, act, policy, desired, blocked, collision_uids) ==
  IF act.name = "wait"
  THEN [pos |-> ap, events |-> <<Event("waited", [agent |-> x])>>]
  ELSE IF act.name = "move"
  THEN IF x \in DOMAIN blocked
       THEN [pos |-> ap,
             events |-> <<Event("blocked", [agent |-> x, to |-> blocked[x]])>>]
       ELSE IF x \in collision_uids /\ policy = "BLOCK"
       THEN [pos |-> ap,
             events |-> <<Event("collision", [agent |-> x, to |-> desired[x]])>>]
       ELSE IF DictGet(desired, x) # None
       THEN [pos |-> desired[x],
             events |-> <<Event("moved", [agent |-> x, to |-> desired[x]])>>]
       ELSE [pos |-> ap, events |-> <<>>]
  ELSE [pos |-> ap,
        events |-> <<Event("unknown_action", [agent |-> x, name |-> act.name])>>]

RECURSIVE ApplyMoves(_, _, _, _, _, _, _, _)
\* the apply loop over sorted_agents: [pos, events]
ApplyMoves(sorted, u, p, actions, policy, desired, blocked, collision_uids) ==
  IF sorted = <<>> THEN [pos |-> p, events |-> <<>>]
  ELSE LET n == Len(sorted)
           a == sorted[n]
           r == ApplyMoves(SubSeq(sorted, 1, n - 1), u, p, actions, policy,
                           desired, blocked, collision_uids)
       IN IF r.pos[a] = None THEN r
          ELSE LET one == ApplyOne(u[a], r.pos[a], actions[u[a]], policy,
                                   desired, blocked, collision_uids)
               IN [pos |-> [r.pos EXCEPT ![a] = one.pos],
                   events |-> r.events \o one.events]

\* World.tick: the whole call.  [ok, exc, W, pos, queued] is the state it
\* leaves; the other fields are the call's locals and its return value.
WorldTick(W, u, p, q, g) ==
  LET tick1 == W.tick + 1
      sorted_agents == SortedByUid(W.agents, u)
      actions == CollectActions(sorted_agents, u, q)
      q1 == ClearSlots(W.agents, q)
      ctx1 == RunHooks(W.systems, "pre_tick", [events |-> <<>>, rng |-> W.rng])
      positions == PositionsDict(sorted_agents, u, p)
      plan == PlanMoves(sorted_agents, u, p, actions, g)
      collision_uids == CollisionUids(W.collision_policy, plan.desired, positions)
      applied == ApplyMoves(sorted_agents, u, p, actions, W.collision_policy,
                            plan.desired, plan.blocked, collision_uids)
      ctx2 == [ctx1 EXCEPT !.events = @ \o applied.events]
      ctx3 == RunHooks(W.systems, "resolve", ctx2)
      ctx4 == RunHooks(W.systems, "post_tick", ctx3)
      W1 == [W EXCEPT !.tick = tick1, !.rng = ctx4.rng]
  IN IF ~plan.ok
     THEN [ok |-> FALSE, exc |-> "KeyError",
           W |-> [W EXCEPT !.tick = tick1, !.rng = ctx1.rng],
           pos |-> p, queued |-> q1, actions |-> actions,
           positions |-> positions, desired_moves |-> EmptyDict,
           blocked_targets |-> EmptyDict, collision_uids |-> {},
           events |-> <<>>, state |-> None]
     ELSE [ok |-> TRUE, exc |-> None, W |-> W1,
           pos |-> applied.pos, queued |-> q1, actions |-> actions,
           positions |-> positions, desired_moves |-> plan.desired,
           blocked_targets |-> plan.blocked, collision_uids |-> collision_uids,
           events |-> ctx4.events,
           state |-> WorldSnapshot(W1, u, applied.pos)]

\* ----------------------------------- __init__.py: the package's own classes
\* Agent.__init__ of the package module, with the class's own counter
PkgAgentNew(counter) ==
  [uid |-> counter, next_uid |-> counter + 1, world |-> 0, pos |-> None,
   queued |-> None]

\* World.spawn of the package module
PkgWorldSpawn(W, w, g, a, aw, ap, at) ==
  IF aw # 0
  THEN [ok |-> FALSE, exc |-> "ValueError", W |-> W, world |-> aw, pos |-> ap]
  ELSE IF ~is_walkable(g, at)
  THEN [ok |-> FALSE, exc |-> "ValueError", W |-> W, world |-> aw, pos |-> ap]
  ELSE [ok |-> TRUE, exc |-> None, W |-> [W EXCEPT !.agents = Append(@, a)],
        world |-> w, pos |-> at]

\* pending_actions: the rostered agents with a non-empty slot, in roster order
PkgPending(agents, q) == SelectSeq(agents, LAMBDA a : q[a] # None)

\* one agent of the package tick's apply loop: [ok, pos, events]
PkgApplyOne(x, ap, act, g) ==
  IF act.name = "wait"
  THEN [ok |-> TRUE, pos |-> ap, events |-> <<Event("waited", [agent |-> x])>>]
  ELSE IF act.name = "move"
  THEN IF ~MoveHasDir(act) THEN [ok |-> FALSE, pos |-> ap, events |-> <<>>]
       ELSE LET nxt == MoveTarget(ap, act.data.dir)
            IN IF is_walkable(g, nxt)
               THEN [ok |-> TRUE, pos |-> nxt,
                     events |-> <<Event("moved", [agent |-> x, to |-> nxt])>>]
               ELSE [ok |-> TRUE, pos |-> ap,
                     events |-> <<Event("blocked", [agent |-> x, to |-> nxt])>>]
  ELSE [ok |-> TRUE, pos |-> ap,
        events |-> <<Event("unknown_action", [agent |-> x, name |-> act.name])>>]

RECURSIVE PkgApply(_, _, _, _, _)
\* the apply loop over pending_actions: [ok, pos, events]
PkgApply(pending, u, p, q, g) ==
  IF pending = <<>> THEN [ok |-> TRUE, pos |-> p, events |-> <<>>]
  ELSE LET n == Len(pending)
           a == pending[n]
           r == PkgApply(SubSeq(pending, 1, n - 1), u, p, q, g)
       IN IF ~r.ok \/ r.pos[a] = None THEN r
          ELSE LET one == PkgApplyOne(u[a], r.pos[a], q[a], g)
               IN [ok |-> one.ok,
                   pos |-> [r.pos EXCEPT ![a] = one.pos],
                   events |-> r.events \o one.events]

\* World.tick of the package module: the whole call
PkgWorldTick(W, u, p, q, g) ==
  LET W1 == [W EXCEPT !.tick = @ + 1]
      pending == PkgPending(W.agents, q)
      q1 == ClearSlots(W.agents, q)
      applied == PkgApply(pending, u, p, q, g)
  IN [ok |-> applied.ok, exc |-> IF applied.ok THEN None ELSE "KeyError",
      W |-> W1, pos |-> applied.pos, queued |-> q1,
      events |-> IF applied.ok THEN applied.events ELSE <<>>,
      state |-> IF applied.ok THEN WorldSnapshot(W1, u, applied.pos) ELSE None]

\* ----------------------------------------------- observation.py, observe()
SensorShapes == {"MANHATTAN", "SQUARE"}

SensorSpec(radius, shape) == [radius |-> radius, shape |-> shape]

VisibleTile(p, tile) == [pos |-> p, tile |-> tile]

VisibleEntity(x, kind, p) == [uid |-> x, kind |-> kind, pos |-> p]

Observation(tick, self_uid, self_pos, tiles, entities) ==
  [tick |-> tick, self_uid |-> self_uid, self_pos |-> self_pos,
   tiles |-> tiles, entities |-> entities]

\* agent.sensor: Agent.__init__ and Entity.__init__ set no such attribute
AgentSensor(a) == None

Abs(x) == IF x < 0 THEN -x ELSE x

\* for dy in range(-radius, radius + 1): for dx in range(-radius, radius + 1)
Offsets(radius) ==
  IF radius < 0 THEN <<>>
  ELSE LET n == 2 * radius + 1
       IN [k \in 1..(n * n) |->
             <<((k - 1) % n) - radius, ((k - 1) \div n) - radius>>]

\* the shape test of the loop body: FALSE where the body says continue
ShapeAdmits(shape, radius, dx, dy) ==
  IF shape = "MANHATTAN" THEN Abs(dx) + Abs(dy) <= radius
  ELSE IF shape = "SQUARE"
  THEN (IF Abs(dx) > Abs(dy) THEN Abs(dx) ELSE Abs(dy)) <= radius
  ELSE FALSE

\* the positions the loop reaches its append with, in the loop's order
VisiblePositions(g, center, sensor) ==
  LET at(o) == <<center[1] + o[1], center[2] + o[2]>>
      kept == SelectSeq(Offsets(sensor.radius),
                        LAMBDA o : /\ ShapeAdmits(sensor.shape, sensor.radius,
                                                  o[1], o[2])
                                   /\ in_bounds(g, at(o)))
  IN [i \in DOMAIN kept |-> at(kept[i])]

\* World.observe: [ok, exc, obs]; it assigns to no field of the world
WorldObserve(W, w, u, p, g, a, aw, ap, sensor) ==
  IF aw # w THEN [ok |-> FALSE, exc |-> "ValueError", obs |-> None]
  ELSE IF ap = None THEN [ok |-> FALSE, exc |-> "ValueError", obs |-> None]
  ELSE IF sensor = None
  THEN [ok |-> FALSE, exc |-> "AttributeError", obs |-> None]
  ELSE LET seen == VisiblePositions(g, ap, sensor)
           tiles == [i \in DOMAIN seen |->
                       VisibleTile(seen[i], IF is_walkable(g, seen[i])
                                            THEN "floor" ELSE "wall")]
           visible_positions == Range(seen)
           shown == SelectSeq(SortedByUid(W.agents, u),
                              LAMBDA b : p[b] # None /\ p[b] \in visible_positions)
           entities == [i \in DOMAIN shown |->
                          VisibleEntity(u[shown[i]], "agent", p[shown[i]])]
       IN [ok |-> TRUE, exc |-> None,
           obs |-> Observation(W.tick, u[a], ap, tiles, entities)]

\* ------------------------------------------------------------------ inputs
Cells(g) == {<<x, y>> : x \in 0..(g.width - 1), y \in 0..(g.height - 1)}

\* the cells of g and the ring of positions just outside it
NearCells(g) == {<<x, y>> : x \in -1..g.width, y \in -1..g.height}

\* where the map author of Spec puts a wall: grid.set(pos, Wall())
WallAt == <<0, 1>>

\* the grid handed to World() in Spec
WalledGrid == GridSet(GridNew(GridW, GridH), WallAt, "Wall").grid

MoveActions == {move(d) : d \in Dirs}

\* move with an empty payload: Action("move", {})
BadMove == Action("move", <<>>)

\* an action kind the core does not know
OtherAction == Action("send", <<>>)

ActionInputs == {wait, BadMove, OtherAction} \cup MoveActions

SeedInputs == {0, 123}

NumObjs == Cardinality({a \in Objs : uid[a] # 0})

\* ------------------------------------------------------------------- state
InitWith(grids, entropies) ==
  /\ grid \in grids
  /\ next_uid = 1
  /\ pkg_next_uid = 1
  /\ uid = [a \in Objs |-> 0]
  /\ agent_world = [a \in Objs |-> 0]
  /\ pos = [a \in Objs |-> None]
  /\ queued = [a \in Objs |-> None]
  /\ \E e \in [Worlds -> entropies] : worlds = [w \in Worlds |-> WorldNew(e[w])]
  /\ submitted = [a \in Objs |-> None]
  /\ last = [op |-> "init"]

Init == InitWith({WalledGrid}, {-1})

\* a = Agent()
NewAgent(limit) ==
  /\ NumObjs < limit
  /\ LET a == NumObjs + 1
         r == AgentNew(next_uid)
     IN /\ uid' = [uid EXCEPT ![a] = r.uid]
        /\ next_uid' = r.next_uid
        /\ agent_world' = [agent_world EXCEPT ![a] = r.world]
        /\ pos' = [pos EXCEPT ![a] = r.pos]
        /\ queued' = [queued EXCEPT ![a] = r.queued]
        /\ submitted' = [submitted EXCEPT ![a] = None]
        /\ last' = [op |-> "new", agent |-> a]
  /\ UNCHANGED <<grid, pkg_next_uid, worlds>>

\* a.act(action)
Act(a, action) ==
  /\ uid[a] # 0
  /\ queued' = [queued EXCEPT ![a] = AgentAct(@, action)]
  /\ submitted' = [submitted EXCEPT ![a] = action]
  /\ last' = [op |-> "act"]
  /\ UNCHANGED <<grid, next_uid, pkg_next_uid, uid, agent_world, pos, worlds>>

\* worlds[w].spawn(a, at=at)
Spawn(w, a, at) ==
  /\ uid[a] # 0
  /\ LET r == WorldSpawn(worlds[w], w, grid, a, agent_world[a], pos[a], at)
     IN /\ worlds' = [worlds EXCEPT ![w] = r.W]
        /\ agent_world' = [agent_world EXCEPT ![a] = r.world]
        /\ pos' = [pos EXCEPT ![a] = r.pos]
        /\ last' = [op |-> "spawn", world |-> w, agent |-> a, at |-> at,
                    ok |-> r.ok, exc |-> r.exc,
                    pre |-> [agents |-> worlds[w].agents, tick |-> worlds[w].tick,
                             world |-> agent_world[a], pos |-> pos[a]]]
  /\ UNCHANGED <<grid, next_uid, pkg_next_uid, uid, queued, submitted>>

\* worlds[w].tick()
Tick(w) ==
  /\ worlds[w].tick < MaxTick
  /\ LET r == WorldTick(worlds[w], uid, pos, queued, grid)
     IN /\ worlds' = [worlds EXCEPT ![w] = r.W]
        /\ pos' = r.pos
        /\ queued' = r.queued
        /\ submitted' = [a \in Objs |->
                           IF a \in Range(worlds[w].agents) THEN None ELSE submitted[a]]
        /\ last' = [op |-> "tick", world |-> w, ok |-> r.ok, exc |-> r.exc,
                    pre |-> [tick |-> worlds[w].tick, agents |-> worlds[w].agents,
                             pos |-> pos, queued |-> queued,
                             submitted |-> submitted],
                    actions |-> r.actions, positions |-> r.positions,
                    desired_moves |-> r.desired_moves,
                    blocked_targets |-> r.blocked_targets,
                    collision_uids |-> r.collision_uids,
                    events |-> r.events, state |-> r.state]
  /\ UNCHANGED <<grid, next_uid, pkg_next_uid, uid, agent_world>>

\* worlds[w].reset(seed=seed)
Reset(w, seed, entropy) ==
  /\ worlds' = [worlds EXCEPT ![w] = WorldReset(@, seed, entropy)]
  /\ last' = [op |-> "reset", world |-> w, seed |-> seed,
              pre |-> [tick |-> worlds[w].tick, agents |-> worlds[w].agents,
                       systems |-> worlds[w].systems, pos |-> pos,
                       queued |-> queued]]
  /\ UNCHANGED <<grid, next_uid, pkg_next_uid, uid, agent_world, pos, queued, submitted>>

\* worlds[w].add_system(kind())
AddSystem(w, kind) ==
  /\ Len(worlds[w].systems) < MaxSystems
  /\ worlds' = [worlds EXCEPT ![w] = WorldAddSystem(@, kind)]
  /\ last' = [op |-> "add_system", world |-> w]
  /\ UNCHANGED <<grid, next_uid, pkg_next_uid, uid, agent_world, pos, queued, submitted>>

\* where Spec's callers try to spawn: every cell, and one position off the grid
SpawnInputs(g) == Cells(g) \cup {<<-1, 0>>}

Next ==
  \/ NewAgent(MaxAgents)
  \/ \E a \in Objs, action \in ActionInputs : Act(a, action)
  \/ \E a \in Objs, at \in SpawnInputs(grid) : Spawn(TheWorld, a, at)
  \/ Tick(TheWorld)

Spec == Init /\ [][Next]_vars

\* ------------------------------------------------ SpecCrowd: a crowded strip
CrowdActions == {move("E"), move("W")}

InitCrowd == InitWith({GridNew(CrowdW, 1)}, {-1})

\* agents are spawned in the order they were constructed, several to a cell
NextCrowd ==
  \/ NewAgent(CrowdAgents)
  \/ \E a \in Objs, action \in CrowdActions : Act(a, action)
  \/ \E a \in Objs, at \in Cells(grid) :
       a = Len(worlds[TheWorld].agents) + 1 /\ Spawn(TheWorld, a, at)
  \/ Tick(TheWorld)

SpecCrowd == InitCrowd /\ [][NextCrowd]_vars

\* ------------------------------------------- SpecSys: registered systems
SysActions == {wait, move("E")}

Entropy == {-1, -2}

InitSys == InitWith({GridNew(SysW, 1)}, {-1})

NextSys ==
  \/ NewAgent(SysAgents)
  \/ \E a \in Objs, action \in SysActions : Act(a, action)
  \/ \E a \in Objs, at \in Cells(grid) : Spawn(TheWorld, a, at)
  \/ \E kind \in SystemKinds : AddSystem(TheWorld, kind)
  \/ Tick(TheWorld)

SpecSys == InitSys /\ [][NextSys]_vars

\* ------------------------- SpecPkg: the classes `import unlimitedworlds` gives
PkgActions == {wait, move("E"), move("W")}

\* a = unlimitedworlds.Agent()
NewPkgAgent(limit) ==
  /\ NumObjs < limit
  /\ LET a == NumObjs + 1
         r == PkgAgentNew(pkg_next_uid)
     IN /\ uid' = [uid EXCEPT ![a] = r.uid]
        /\ pkg_next_uid' = r.next_uid
        /\ agent_world' = [agent_world EXCEPT ![a] = r.world]
        /\ pos' = [pos EXCEPT ![a] = r.pos]
        /\ queued' = [queued EXCEPT ![a] = r.queued]
        /\ submitted' = [submitted EXCEPT ![a] = None]
        /\ last' = [op |-> "new", agent |-> a]
  /\ UNCHANGED <<grid, next_uid, worlds>>

\* unlimitedworlds.World.spawn(a, at=at)
PkgSpawn(w, a, at) ==
  /\ uid[a] # 0
  /\ LET r == PkgWorldSpawn(worlds[w], w, grid, a, agent_world[a], pos[a], at)
     IN /\ worlds' = [worlds EXCEPT ![w] = r.W]
        /\ agent_world' = [agent_world EXCEPT ![a] = r.world]
        /\ pos' = [pos EXCEPT ![a] = r.pos]
        /\ last' = [op |-> "spawn", world |-> w, agent |-> a, at |-> at,
                    ok |-> r.ok, exc |-> r.exc,
                    pre |-> [agents |-> worlds[w].agents, tick |-> worlds[w].tick,
                             world |-> agent_world[a], pos |-> pos[a]]]
  /\ UNCHANGED <<grid, next_uid, pkg_next_uid, uid, queued, submitted>>

\* unlimitedworlds.World.tick()
PkgTick(w) ==
  /\ worlds[w].tick < MaxTick
  /\ LET r == PkgWorldTick(worlds[w], uid, pos, queued, grid)
     IN /\ worlds' = [worlds EXCEPT ![w] = r.W]
        /\ pos' = r.pos
        /\ queued' = r.queued
        /\ submitted' = [a \in Objs |->
                           IF a \in Range(worlds[w].agents) THEN None ELSE submitted[a]]
        /\ last' = [op |-> "tick", world |-> w, ok |-> r.ok, exc |-> r.exc,
                    pre |-> [tick |-> worlds[w].tick, agents |-> worlds[w].agents,
                             pos |-> pos, queued |-> queued,
                             submitted |-> submitted],
                    events |-> r.events, state |-> r.state]
  /\ UNCHANGED <<grid, next_uid, pkg_next_uid, uid, agent_world>>

InitPkg == InitWith({GridNew(PkgW, 1)}, {-1})

NextPkg ==
  \/ NewPkgAgent(PkgAgents)
  \/ \E a \in Objs, action \in PkgActions : Act(a, action)
  \/ \E a \in Objs, at \in Cells(grid) : PkgSpawn(TheWorld, a, at)
  \/ PkgTick(TheWorld)

SpecPkg == InitPkg /\ [][NextPkg]_vars

\* ------------------------ SpecDet: two World objects driven by the same calls
\* (both are reset with a seed, if at all, before any agent is spawned)
DetActions == {move("E")}

DetSystems == {"RngSystem"}

\* the same spawn call on both worlds, each with an agent of its own
PairSpawn(a, b, at) ==
  /\ a # b /\ uid[a] # 0 /\ uid[b] # 0
  /\ agent_world[a] = 0 /\ agent_world[b] = 0
  /\ LET r1 == WorldSpawn(worlds[1], 1, grid, a, agent_world[a], pos[a], at)
         r2 == WorldSpawn(worlds[2], 2, grid, b, agent_world[b], pos[b], at)
     IN /\ worlds' = [worlds EXCEPT ![1] = r1.W, ![2] = r2.W]
        /\ agent_world' = [agent_world EXCEPT ![a] = r1.world, ![b] = r2.world]
        /\ pos' = [pos EXCEPT ![a] = r1.pos, ![b] = r2.pos]
        /\ last' = [op |-> "pair_spawn"]
  /\ UNCHANGED <<grid, next_uid, pkg_next_uid, uid, queued, submitted>>

\* the same act call on the i-th spawned agent of each world
PairAct(i, action) ==
  /\ i \in DOMAIN worlds[1].agents /\ i \in DOMAIN worlds[2].agents
  /\ LET a == worlds[1].agents[i]
         b == worlds[2].agents[i]
     IN /\ queued' = [queued EXCEPT ![a] = AgentAct(@, action),
                                    ![b] = AgentAct(@, action)]
        /\ submitted' = [submitted EXCEPT ![a] = action, ![b] = action]
  /\ last' = [op |-> "act"]
  /\ UNCHANGED <<grid, next_uid, pkg_next_uid, uid, agent_world, pos, worlds>>

\* tick() on both worlds
PairTick ==
  /\ worlds[1].tick < MaxTick /\ worlds[2].tick < MaxTick
  /\ LET r1 == WorldTick(worlds[1], uid, pos, queued, grid)
         r2 == WorldTick(worlds[2], uid, r1.pos, r1.queued, grid)
     IN /\ worlds' = [worlds EXCEPT ![1] = r1.W, ![2] = r2.W]
        /\ pos' = r2.pos
        /\ queued' = r2.queued
        /\ submitted' = [a \in Objs |->
                           IF a \in Range(worlds[1].agents) \cup Range(worlds[2].agents)
                           THEN None ELSE submitted[a]]
        /\ last' = [op |-> "pair_tick", ok |-> r1.ok /\ r2.ok,
                    pre |-> [agents |-> <<worlds[1].agents, worlds[2].agents>>],
                    events |-> <<r1.events, r2.events>>,
                    state |-> <<r1.state, r2.state>>]
  /\ UNCHANGED <<grid, next_uid, pkg_next_uid, uid, agent_world>>

\* reset(seed=seed) on both worlds
PairReset(seed, e1, e2) ==
  /\ worlds' = [worlds EXCEPT ![1] = WorldReset(@, seed, e1),
                              ![2] = WorldReset(@, seed, e2)]
  /\ last' = [op |-> "pair_reset"]
  /\ UNCHANGED <<grid, next_uid, pkg_next_uid, uid, agent_world, pos, queued, submitted>>

\* add_system(kind()) on both worlds
PairAddSystem(kind) ==
  /\ Len(worlds[1].systems) < MaxSystems
  /\ worlds' = [worlds EXCEPT ![1] = WorldAddSystem(@, kind),
                              ![2] = WorldAddSystem(@, kind)]
  /\ last' = [op |-> "pair_add_system"]
  /\ UNCHANGED <<grid, next_uid, pkg_next_uid, uid, agent_world, pos, queued, submitted>>

\* two generators seeded from the system's entropy do not start alike
InitDet ==
  /\ InitWith({GridNew(DetW, 1)}, Entropy)
  /\ worlds[1].rng.seed # worlds[2].rng.seed

NextDet ==
  \/ NewAgent(DetAgents)
  \/ \E a, b \in Objs, at \in Cells(grid) : PairSpawn(a, b, at)
  \/ \E i \in Objs, action \in DetActions : PairAct(i, action)
  \/ PairTick
  \/ \E seed \in SeedInputs \ {0} :
       worlds[1].agents = <<>> /\ PairReset(seed, -1, -1)
  \/ \E kind \in DetSystems : PairAddSystem(kind)

SpecDet == InitDet /\ [][NextDet]_vars

\* ------------------- SpecOps: one World with reset, snapshot() and observe()
\* what the caller sees of a world and its agents between two calls
Visible(w) ==
  [tick |-> worlds[w].tick, agents |-> worlds[w].agents,
   systems |-> worlds[w].systems, pos |-> pos, queued |-> queued,
   agent_world |-> agent_world]

\* worlds[w].snapshot()
Snapshot(w) ==
  /\ last' = [op |-> "snapshot", world |-> w,
              result |-> WorldSnapshot(worlds[w], uid, pos),
              pre |-> Visible(w),
              again |-> last.op = "snapshot" /\ last.world = w,
              before |-> IF last.op = "snapshot" /\ last.world = w
                         THEN last.result ELSE None,
              ticked |-> last.op = "tick" /\ last.world = w /\ last.ok,
              returned |-> IF last.op = "tick" /\ last.world = w /\ last.ok
                           THEN last.state ELSE None]
  /\ UNCHANGED <<grid, next_uid, pkg_next_uid, uid, agent_world, pos, queued,
                 worlds, submitted>>

\* worlds[w].observe(a)
Observe(w, a) ==
  /\ uid[a] # 0
  /\ LET r == WorldObserve(worlds[w], w, uid, pos, grid, a, agent_world[a],
                           pos[a], AgentSensor(a))
         again == last.op = "observe" /\ last.world = w /\ last.agent = a
     IN last' = [op |-> "observe", world |-> w, agent |-> a,
                 ok |-> r.ok, exc |-> r.exc, obs |-> r.obs,
                 pre |-> Visible(w),
                 again |-> again,
                 before |-> IF again THEN [ok |-> last.ok, obs |-> last.obs]
                            ELSE None,
                 tick |-> IF last.op = "tick" /\ last.world = w
                          THEN [ok |-> last.ok, agents |-> last.pre.agents,
                                actions |-> last.actions]
                          ELSE None]
  /\ UNCHANGED <<grid, next_uid, pkg_next_uid, uid, agent_world, pos, queued,
                 worlds, submitted>>

OpsActions == {wait, move("E")}

InitOps == InitWith({GridNew(OpsW, 1)}, {-1})

NextOps ==
  \/ NewAgent(OpsAgents)
  \/ \E a \in Objs, action \in OpsActions : Act(a, action)
  \/ \E a \in Objs, at \in Cells(grid) : Spawn(TheWorld, a, at)
  \/ Tick(TheWorld)
  \/ \E seed \in SeedInputs, entropy \in Entropy : Reset(TheWorld, seed, entropy)
  \/ Snapshot(TheWorld)
  \/ \E w \in Worlds, a \in Objs : Observe(w, a)

SpecOps == InitOps /\ [][NextOps]_vars

\* ------------------------------ SpecMsg: agents that hold "send" actions
\* the action the tests build with send(dst_uid, payload); the package has
\* no such helper, so a caller builds it with Action()
SendAction(dst, payload) ==
  Action("send", [dst |-> dst, payload |-> payload])

\* a payload of n characters
Payload(n) == [i \in 1..n |-> "x"]

\* a payload of one character and the longest one
Payloads == {Payload(1), Payload(MaxPayload)}

\* every send goes to the agent constructed last
MsgActions ==
  {wait} \cup {SendAction(MsgAgents, payload) : payload \in Payloads}

InitMsg == InitWith({GridNew(MsgW, 1)}, {-1})

NextMsg ==
  \/ NewAgent(MsgAgents)
  \/ \E a \in Range(worlds[TheWorld].agents), action \in MsgActions :
       Act(a, action)
  \/ \E a \in Objs, at \in Cells(grid) : Spawn(TheWorld, a, at)
  \/ Tick(TheWorld)
  \/ \E a \in Range(worlds[TheWorld].agents) : Observe(TheWorld, a)

SpecMsg == InitMsg /\ [][NextMsg]_vars

\* ------------------------ SpecReset: one World with systems, reset and rng
ResetSystems == {"RngSystem", "HelloSystem"}

InitReset == InitWith({GridNew(ResetW, 1)}, Entropy)

NextReset ==
  \/ NewAgent(ResetAgents)
  \/ \E a \in Objs : Act(a, wait)
  \/ \E a \in Objs, at \in Cells(grid) : Spawn(TheWorld, a, at)
  \/ \E kind \in ResetSystems : AddSystem(TheWorld, kind)
  \/ Tick(TheWorld)
  \/ \E seed \in SeedInputs, entropy \in Entropy : Reset(TheWorld, seed, entropy)
  \/ Snapshot(TheWorld)

SpecReset == InitReset /\ [][NextReset]_vars

\* ------------- SpecUid: agents of both exposed Agent classes in one process
UidActions == {wait, move("E")}

InitUid == InitWith({GridNew(UidW, 1)}, {-1})

NextUid ==
  \/ NewAgent(UidAgents)
  \/ NewPkgAgent(UidAgents)
  \/ \E a \in Objs, action \in UidActions : Act(a, action)
  \/ \E a \in Objs, at \in Cells(grid) : Spawn(TheWorld, a, at)
  \/ Tick(TheWorld)
  \/ \E seed \in SeedInputs : Reset(TheWorld, seed, -1)

SpecUid == InitUid /\ [][NextUid]_vars

\* ----------------------------------- SpecGrid: get and set on a Grid object
Tiles == {"Floor", "Wall"}

\* grid.get(p)
GetTile(p) ==
  /\ last' = [op |-> "get", pos |-> p, pre |-> grid, result |-> GridGet(grid, p)]
  /\ UNCHANGED <<grid, next_uid, pkg_next_uid, uid, agent_world, pos, queued,
                 worlds, submitted>>

\* grid.set(p, tile)
SetTile(p, tile) ==
  /\ LET r == GridSet(grid, p, tile)
     IN /\ grid' = r.grid
        /\ last' = [op |-> "set", pos |-> p, tile |-> tile, pre |-> grid,
                    ok |-> r.ok, exc |-> r.exc]
  /\ UNCHANGED <<next_uid, pkg_next_uid, uid, agent_world, pos, queued,
                 worlds, submitted>>

InitGrid ==
  InitWith({GridNew(w, h) : w \in 1..TilesW, h \in 1..TilesH}, {-1})

NextGrid ==
  \/ \E p \in NearCells(grid) : GetTile(p)
  \/ \E p \in NearCells(grid), tile \in Tiles : SetTile(p, tile)

SpecGrid == InitGrid /\ [][NextGrid]_vars

\* ------------- SpecSee: observe by agents that the caller gives a sensor
SeeActions == {wait, move("E")}

SeeSensors == {SensorSpec(0, "SQUARE"), SensorSpec(1, "MANHATTAN")}

\* a.sensor = sensor; worlds[w].observe(a)
AttachObserve(w, a, sensor) ==
  /\ uid[a] # 0
  /\ LET r == WorldObserve(worlds[w], w, uid, pos, grid, a, agent_world[a],
                           pos[a], sensor)
     IN last' = [op |-> "attach_observe", world |-> w, agent |-> a,
                 sensor |-> sensor, ok |-> r.ok, exc |-> r.exc, obs |-> r.obs,
                 pre |-> Visible(w)]
  /\ UNCHANGED <<grid, next_uid, pkg_next_uid, uid, agent_world, pos, queued,
                 worlds, submitted>>

InitSee == InitWith({GridNew(SeeW, 1)}, {-1})

NextSee ==
  \/ NewAgent(SeeAgents)
  \/ \E a \in Objs, action \in SeeActions : Act(a, action)
  \/ \E a \in Objs, at \in Cells(grid) : Spawn(TheWorld, a, at)
  \/ Tick(TheWorld)
  \/ Reset(TheWorld, 0, -1)
  \/ \E a \in Objs, sensor \in SeeSensors : AttachObserve(TheWorld, a, sensor)

SpecSee == InitSee /\ [][NextSee]_vars

\* --------------- SpecAttach: two World objects and the agents spawned in them
InitAttach == InitWith({GridNew(AttachW, 1)}, {-1})

NextAttach ==
  \/ NewAgent(AttachAgents)
  \/ \E a \in Objs : Act(a, wait)
  \/ \E w \in Worlds, a \in Objs, at \in Cells(grid) : Spawn(w, a, at)
  \/ \E w \in Worlds : Tick(w)
  \/ \E w \in Worlds : Reset(w, 0, -1)
  \/ \E w \in Worlds : Snapshot(w)
  \/ \E w \in Worlds, a \in Objs : AttachObserve(w, a, SensorSpec(0, "SQUARE"))

SpecAttach == InitAttach /\ [][NextAttach]_vars

\* ------- SpecValid: spawn, act, tick and observe on a grid that has a wall
ValidActions == {wait} \cup MoveActions

NextValid ==
  \/ NewAgent(ValidAgents)
  \/ \E a \in Objs, action \in ValidActions : Act(a, action)
  \/ \E a \in Objs, at \in SpawnInputs(grid) : Spawn(TheWorld, a, at)
  \/ Tick(TheWorld)
  \/ \E a \in Objs : AttachObserve(TheWorld, a, SensorSpec(1, "MANHATTAN"))

SpecValid == Init /\ [][NextValid]_vars

\* ---------------------------------------------------- vocabulary of claims
\* the last operation was a tick() that returned
TickDone == last.op = "tick" /\ last.ok

\* the agents the last tick had in its roster
Rostered == Range(last.pre.agents)

\* what an agent held when the last tick began
Held(a) == last.pre.queued[a]

HeldMove(a) == Held(a) # None /\ Held(a).name = "move" /\ "dir" \in DOMAIN Held(a).data

CardinalOffset(d) ==
  CASE d = "N" -> <<0, -1>> [] d = "E" -> <<1, 0>>
    [] d = "S" -> <<0, 1>> [] d = "W" -> <<-1, 0>>

\* the destination of the move an agent held when the last tick began
Dest(a) ==
  <<last.pre.pos[a][1] + CardinalOffset(Held(a).data.dir)[1],
    last.pre.pos[a][2] + CardinalOffset(Held(a).data.dir)[2]>>

\* c is a cell of the grid and its tile is a Floor
WalkableCell(c) ==
  /\ c[1] \in 0..(grid.width - 1)
  /\ c[2] \in 0..(grid.height - 1)
  /\ grid.tiles[c[2] * grid.width + c[1]] = "Floor"

\* the places of the events of the last tick with this name and agent uid
EventIdx(name, x) ==
  {i \in DOMAIN last.events :
     /\ last.events[i].name = name
     /\ "agent" \in DOMAIN last.events[i].data
     /\ last.events[i].data.agent = x}

\* the events of the last tick about this agent uid
AgentEventIdx(x) ==
  {i \in DOMAIN last.events :
     /\ "agent" \in DOMAIN last.events[i].data
     /\ last.events[i].data.agent = x}

\* ----------------------------------------------------------------- claims
\* C1: under BLOCK, two agents on distinct walkable cells that both hold a
\* move to the same walkable cell both get a "collision" event, in ascending
\* uid order, and keep their positions.
C1_Contention ==
  TickDone =>
    \A a, b \in Rostered :
      ( /\ uid[a] < uid[b]
        /\ last.pre.pos[a] # last.pre.pos[b]
        /\ WalkableCell(last.pre.pos[a]) /\ WalkableCell(last.pre.pos[b])
        /\ HeldMove(a) /\ HeldMove(b)
        /\ Dest(a) = Dest(b) /\ WalkableCell(Dest(a)) )
      => /\ \E i \in EventIdx("collision", uid[a]), j \in EventIdx("collision", uid[b]) :
              i < j
         /\ pos[a] = last.pre.pos[a]
         /\ pos[b] = last.pre.pos[b]

C1_Witness ==
  /\ TickDone
  /\ \E a, b \in Rostered :
       /\ uid[a] < uid[b]
       /\ last.pre.pos[a] # last.pre.pos[b]
       /\ HeldMove(a) /\ HeldMove(b)
       /\ Dest(a) = Dest(b) /\ WalkableCell(Dest(a))
       /\ EventIdx("collision", uid[a]) # {}

\* C2: two agents that hold moves into each other's cells both collide and
\* neither moves, whoever else is in the roster.
C2_SwapSymmetry ==
  TickDone =>
    \A a, b \in Rostered :
      ( /\ a # b
        /\ HeldMove(a) /\ HeldMove(b)
        /\ Dest(a) = last.pre.pos[b]
        /\ Dest(b) = last.pre.pos[a] )
      => /\ {uid[a], uid[b]} \subseteq last.collision_uids
         /\ EventIdx("collision", uid[a]) # {}
         /\ EventIdx("collision", uid[b]) # {}
         /\ pos[a] = last.pre.pos[a]
         /\ pos[b] = last.pre.pos[b]

\* C5: a tick() that fails leaves tick_count, every pending slot and every
\* position as they were before the call.
C5_TickAtomic ==
  (last.op = "tick" /\ ~last.ok) =>
    /\ worlds[last.world].tick = last.pre.tick
    /\ queued = last.pre.queued
    /\ pos = last.pre.pos

\* C6: spawn fails exactly when the agent has a world or `at` is not a
\* walkable cell, and then changes nothing; otherwise it attaches the agent,
\* places it at `at` and appends it to the roster, so that snapshot() maps
\* its uid to `at`.
C6_SpawnValidation ==
  last.op = "spawn" =>
    LET a == last.agent
        W == worlds[last.world]
    IN /\ last.ok <=> (last.pre.world = 0 /\ WalkableCell(last.at))
       /\ ~last.ok =>
            /\ last.exc = "ValueError"
            /\ W.agents = last.pre.agents
            /\ W.tick = last.pre.tick
            /\ agent_world[a] = last.pre.world
            /\ pos[a] = last.pre.pos
       /\ last.ok =>
            /\ agent_world[a] = last.world
            /\ pos[a] = last.at
            /\ W.agents = last.pre.agents \o <<a>>
            /\ W.tick = last.pre.tick
            /\ uid[a] \in DOMAIN WorldSnapshot(W, uid, pos).positions
            /\ WorldSnapshot(W, uid, pos).positions[uid[a]] = last.at

\* a spawn onto a wall was refused
C6_Witness ==
  /\ last.op = "spawn" /\ ~last.ok
  /\ last.pre.world = 0
  /\ last.at \in Cells(grid)
  /\ ~WalkableCell(last.at)

\* C7: a tick resolves, for every rostered agent, the last action handed to
\* act() since its slot was last taken (a wait when there was none), emits
\* one event for it, and leaves its slot empty.
C7_LastActionWins ==
  last.op = "tick" =>
    \A a \in Rostered :
      /\ last.actions[uid[a]] =
           (IF last.pre.submitted[a] = None THEN wait ELSE last.pre.submitted[a])
      /\ queued[a] = None
      /\ last.ok => Cardinality(AgentEventIdx(uid[a])) = 1

\* a second tick, with no act() since the first, made the agent wait
C7_Witness ==
  /\ TickDone
  /\ last.pre.tick = 1
  /\ \E a \in Rostered :
       /\ last.pre.submitted[a] = None
       /\ EventIdx("waited", uid[a]) # {}

\* C9: an agent that holds a move to a walkable cell and is not in the
\* collision set ends the tick on that cell with a "moved" event; an agent
\* is in the collision set only when another agent holds a move to the same
\* cell or the two hold moves into each other's cells.
C9_SuccessfulMove ==
  TickDone =>
    \A a \in Rostered :
      (HeldMove(a) /\ WalkableCell(Dest(a))) =>
        /\ uid[a] \notin last.collision_uids =>
             /\ pos[a] = Dest(a)
             /\ \E i \in EventIdx("moved", uid[a]) :
                  last.events[i].data.to = Dest(a)
        /\ uid[a] \in last.collision_uids =>
             \E b \in Rostered \ {a} :
               /\ HeldMove(b)
               /\ \/ Dest(b) = Dest(a)
                  \/ Dest(a) = last.pre.pos[b] /\ Dest(b) = last.pre.pos[a]

\* an agent moved into the cell another agent left in the same tick
C9_Witness ==
  /\ TickDone
  /\ \E a, b \in Rostered :
       /\ a # b
       /\ HeldMove(a) /\ HeldMove(b)
       /\ Dest(a) = last.pre.pos[b]
       /\ pos[a] = Dest(a)
       /\ pos[b] = Dest(b)
       /\ EventIdx("moved", uid[a]) # {}

\* C10: an agent that holds a move to a wall or off the grid keeps its
\* position and gets a "blocked" event with that destination, and no
\* "collision" or "moved" event; is_walkable answers every position with a
\* boolean, false off the grid.
C10_BlockedMove ==
  /\ \A c \in NearCells(grid) :
       /\ is_walkable(grid, c) \in BOOLEAN
       /\ is_walkable(grid, c) = WalkableCell(c)
  /\ last.op = "tick" =>
       \A a \in Rostered :
         (HeldMove(a) /\ ~WalkableCell(Dest(a))) =>
           /\ pos[a] = last.pre.pos[a]
           /\ last.ok =>
                /\ \E i \in EventIdx("blocked", uid[a]) :
                     last.events[i].data.to = Dest(a)
                /\ EventIdx("collision", uid[a]) = {}
                /\ EventIdx("moved", uid[a]) = {}

\* one agent was blocked by a wall and another by the edge of the grid
C10_Witness ==
  /\ TickDone
  /\ \E a, b \in Rostered :
       /\ HeldMove(a) /\ Dest(a) \in Cells(grid) /\ ~WalkableCell(Dest(a))
       /\ HeldMove(b) /\ Dest(b) \notin Cells(grid)
       /\ EventIdx("blocked", uid[a]) # {}
       /\ EventIdx("blocked", uid[b]) # {}

\* the names of the events of the last tick
EventNames == [i \in DOMAIN last.events |-> last.events[i].name]

\* the event names one hook of one system of the test suite appends
HookNames(kind, hook) ==
  CASE kind = "SysA" ->
         <<CASE hook = "pre_tick" -> "sysA.pre" [] hook = "resolve" -> "sysA.resolve"
             [] hook = "post_tick" -> "sysA.post">>
    [] kind = "SysB" ->
         <<CASE hook = "pre_tick" -> "sysB.pre" [] hook = "resolve" -> "sysB.resolve"
             [] hook = "post_tick" -> "sysB.post">>
    [] kind = "HelloSystem" -> IF hook = "post_tick" THEN <<"hello">> ELSE <<>>
    [] kind = "RngSystem" -> IF hook = "post_tick" THEN <<"rng">> ELSE <<>>

RECURSIVE PhaseNames(_, _)
\* the event names a hook phase appends for systems registered in this order
PhaseNames(systems, hook) ==
  IF systems = <<>> THEN <<>>
  ELSE HookNames(Head(systems), hook) \o PhaseNames(Tail(systems), hook)

CoreEventNames == {"waited", "moved", "blocked", "collision", "unknown_action"}

\* C3: the events of a tick are the pre_tick events of the systems in
\* registration order, then one core event per rostered agent, then the
\* resolve events in registration order, then the post_tick events in
\* registration order.
C3_HookOrder ==
  TickDone =>
    LET systems == worlds[last.world].systems
        pre == PhaseNames(systems, "pre_tick")
        res == PhaseNames(systems, "resolve")
        post == PhaseNames(systems, "post_tick")
        k == Len(last.pre.agents)
        core == SubSeq(EventNames, Len(pre) + 1, Len(pre) + k)
    IN /\ Len(EventNames) = Len(pre) + k + Len(res) + Len(post)
       /\ EventNames = pre \o core \o res \o post
       /\ \A i \in DOMAIN core : core[i] \in CoreEventNames
       /\ \A i \in (Len(pre) + 1)..(Len(pre) + k) :
            "agent" \in DOMAIN last.events[i].data

\* the tick of the test: systems [SysA, SysB] and one waiting agent
C3_Witness ==
  /\ TickDone
  /\ worlds[last.world].systems = <<"SysA", "SysB">>
  /\ EventNames = <<"sysA.pre", "sysB.pre", "waited", "sysA.resolve",
                    "sysB.resolve", "sysA.post", "sysB.post">>

\* C8: a rostered agent whose slot is empty when a tick begins gets a
\* "waited" event with its uid and keeps its position.
C8_ImplicitWait ==
  TickDone =>
    \A a \in Rostered :
      Held(a) = None =>
        /\ EventIdx("waited", uid[a]) # {}
        /\ pos[a] = last.pre.pos[a]

\* both worlds were reset with the same seed
SameSeed == worlds[1].seed # 0 /\ worlds[1].seed = worlds[2].seed

\* the place in a roster of the agent with uid x
PlaceOf(x, roster) == CHOOSE i \in DOMAIN roster : uid[roster[i]] = x

\* an event with the agent's uid replaced by the agent's place in the roster
PlacedEvent(e, roster) ==
  IF "agent" \in DOMAIN e.data
  THEN [e EXCEPT !.data.agent = PlaceOf(@, roster)]
  ELSE e

PlacedEvents(events, roster) ==
  [i \in DOMAIN events |-> PlacedEvent(events[i], roster)]

\* a WorldState with every uid replaced by the agent's place in the roster
PlacedState(st, roster) ==
  [tick |-> st.tick,
   positions |-> [i \in {PlaceOf(x, roster) : x \in DOMAIN st.positions} |->
                    st.positions[uid[roster[i]]]]]

\* the i-th spawned agents of the two worlds were constructed in the same order
SameUidOrder ==
  LET r1 == last.pre.agents[1]
      r2 == last.pre.agents[2]
  IN \A i, j \in DOMAIN r1 :
       (uid[r1[i]] < uid[r1[j]]) <=> (uid[r2[i]] < uid[r2[j]])

\* C4 (as stated): two worlds reset with the same seed and driven by the
\* same calls return equal events, uids included, and equal snapshots.
C4_Determinism ==
  (last.op = "pair_tick" /\ SameSeed) =>
    /\ last.events[1] = last.events[2]
    /\ last.state[1] = last.state[2]

\* C4 (amended): when corresponding agents were constructed in the same
\* relative order, the events and snapshots of the two worlds are equal once
\* every uid is replaced by the agent's place in its world's spawn order.
C4_DeterminismUpToUids ==
  (last.op = "pair_tick" /\ SameSeed /\ SameUidOrder) =>
    /\ PlacedEvents(last.events[1], last.pre.agents[1])
         = PlacedEvents(last.events[2], last.pre.agents[2])
    /\ PlacedState(last.state[1], last.pre.agents[1])
         = PlacedState(last.state[2], last.pre.agents[2])

\* two agents a world, a registered RngSystem, a move and a seeded draw
C4_Witness ==
  /\ last.op = "pair_tick" /\ SameSeed /\ SameUidOrder
  /\ Len(last.pre.agents[1]) = 2
  /\ \E i \in DOMAIN last.events[1] : last.events[1][i].name = "rng"
  /\ \E i \in DOMAIN last.events[1] : last.events[1][i].name = "moved"
  /\ last.events[1] # last.events[2]

\* ------------------------------------------------------- claims C11 .. C20
\* the action an agent held when the last tick began has a name the core
\* does not know
HeldUnknown(a) == Held(a) # None /\ Held(a).name \notin {"wait", "move"}

\* the event names the apply loop can emit for an action of this name
EventNamesFor(name) ==
  IF name = "wait" THEN {"waited"}
  ELSE IF name = "move" THEN {"moved", "blocked", "collision"}
  ELSE {"unknown_action"}

\* C11: an action whose name is neither "wait" nor "move" never makes the
\* tick fail (a failing tick has an agent holding a move without a
\* direction); the tick emits "unknown_action" {agent, name} for its agent,
\* leaves that agent where it was, and emits for every other agent the one
\* event its own action calls for.
C11_UnknownAction ==
  last.op = "tick" =>
    /\ ~last.ok =>
         \E b \in Rostered :
           Held(b) # None /\ Held(b).name = "move" /\ ~HeldMove(b)
    /\ last.ok =>
         \A a \in Rostered :
           HeldUnknown(a) =>
             /\ AgentEventIdx(uid[a]) = EventIdx("unknown_action", uid[a])
             /\ \E i \in EventIdx("unknown_action", uid[a]) :
                  last.events[i].data = [agent |-> uid[a], name |-> Held(a).name]
             /\ Cardinality(AgentEventIdx(uid[a])) = 1
             /\ pos[a] = last.pre.pos[a]
             /\ \A b \in Rostered \ {a} :
                  /\ Cardinality(AgentEventIdx(uid[b])) = 1
                  /\ \A i \in AgentEventIdx(uid[b]) :
                       last.events[i].name \in
                         EventNamesFor(last.actions[uid[b]].name)

\* one agent held an unknown action and the other moved in the same tick
C11_Witness ==
  /\ TickDone
  /\ \E a, b \in Rostered :
       /\ a # b /\ HeldUnknown(a)
       /\ EventIdx("unknown_action", uid[a]) # {}
       /\ EventIdx("moved", uid[b]) # {}
       /\ pos[b] # last.pre.pos[b]

\* the rostered agents of a world that have a position
Placed(w) == {a \in Range(worlds[w].agents) : pos[a] # None}

\* C12: snapshot() returns the tick count and the position of every rostered
\* agent that has one, keyed by uid; it changes neither the tick count, the
\* roster, a position nor a pending action; and a snapshot() that follows
\* another with no call in between returns an equal value.
C12_SnapshotPure ==
  last.op = "snapshot" =>
    /\ last.result.tick = worlds[last.world].tick
    /\ DOMAIN last.result.positions = {uid[a] : a \in Placed(last.world)}
    /\ \A a \in Placed(last.world) : last.result.positions[uid[a]] = pos[a]
    /\ Visible(last.world) = last.pre
    /\ last.again => last.result = last.before

\* a second snapshot() in a row, before the first tick, of a world whose
\* roster is not in uid order
C12_Witness ==
  /\ last.op = "snapshot" /\ last.again
  /\ last.result.tick = 0
  /\ Len(worlds[last.world].agents) = 2
  /\ uid[worlds[last.world].agents[1]] > uid[worlds[last.world].agents[2]]
  /\ Cardinality(DOMAIN last.result.positions) = 2

\* a step of a call other than tick() and reset() keeps every tick count
TickCountKept ==
  last'.op \notin {"tick", "reset"} =>
    \A w \in Worlds : worlds'[w].tick = worlds[w].tick

\* what a completed tick leaves and returns, and what a snapshot() right
\* after it returns
TickCounted ==
  /\ TickDone =>
       /\ worlds[last.world].tick = last.pre.tick + 1
       /\ last.state.tick = worlds[last.world].tick
       /\ last.state.positions =
            [x \in {uid[a] : a \in Placed(last.world)} |->
               pos[CHOOSE a \in Placed(last.world) : uid[a] = x]]
  /\ (last.op = "snapshot" /\ last.ticked) => last.result = last.returned
  /\ last.op = "reset" => worlds[last.world].tick = 0

\* C13: a completed tick() adds exactly one to tick_count and returns a state
\* with that tick, equal to what snapshot() returns right after it; reset()
\* sets the count to 0 (so the k-th tick after it returns k); no other call
\* changes the count.
C13_TickCounter == []TickCounted /\ [][TickCountKept]_vars

\* a snapshot() right after the second tick that followed a reset
C13_Witness ==
  /\ last.op = "snapshot" /\ last.ticked
  /\ last.returned.tick = 2
  /\ worlds[last.world].seed # 0
  /\ last.returned.positions # EmptyDict

\* the bound the tests name MAX_MESSAGE_LEN, at the size of this model
MAX_MESSAGE_LEN == 2

\* the last call was observe() of an attached agent right after a completed tick
AfterTick ==
  /\ last.op = "observe"
  /\ last.tick # None
  /\ last.tick.ok
  /\ last.pre.agent_world[last.agent] = last.world

\* the uids that held a send to the observed agent in that tick
Senders ==
  {x \in DOMAIN last.tick.actions :
     /\ last.tick.actions[x].name = "send"
     /\ last.tick.actions[x].data.dst = uid[last.agent]}

\* the payload such a uid sent
Sent(x) == last.tick.actions[x].data.payload

\* the first n characters of a payload
Prefix(payload, n) ==
  SubSeq(payload, 1, IF Len(payload) < n THEN Len(payload) ELSE n)

\* observe() returned an Observation that has a message sequence
HasMailbox == last.ok /\ "messages" \in DOMAIN last.obs

\* C14: a send to an agent of the same world is not reported as
\* "unknown_action" by the tick, and the recipient's observe() after that
\* tick returns a message with the sender's uid and the payload.
C14_MessageDelivery ==
  /\ TickDone =>
       \A a \in Rostered :
         ( /\ HeldUnknown(a) /\ Held(a).name = "send"
           /\ Held(a).data.dst \in {uid[b] : b \in Rostered} )
         => EventIdx("unknown_action", uid[a]) = {}
  /\ AfterTick =>
       \A x \in Senders :
         Len(Sent(x)) <= MAX_MESSAGE_LEN =>
           /\ HasMailbox
           /\ \E i \in DOMAIN last.obs.messages :
                /\ last.obs.messages[i].src_uid = x
                /\ last.obs.messages[i].payload = Sent(x)

\* C15: when several agents sent to the observed agent in one tick, the
\* messages of those senders appear in its mailbox in strictly ascending
\* order of source uid.
C15_MessageOrder ==
  (AfterTick /\ Cardinality(Senders) >= 2) =>
    /\ HasMailbox
    /\ LET ms == SelectSeq(last.obs.messages,
                           LAMBDA m : m.src_uid \in Senders)
       IN /\ {ms[i].src_uid : i \in DOMAIN ms} = Senders
          /\ \A i, j \in DOMAIN ms : i < j => ms[i].src_uid < ms[j].src_uid

\* C16: every delivered payload is at most MAX_MESSAGE_LEN long, and what a
\* sender sent arrives as its first MAX_MESSAGE_LEN characters (unchanged
\* when it is not longer than that).
C16_MessageTruncation ==
  (AfterTick /\ Senders # {}) =>
    /\ HasMailbox
    /\ \A i \in DOMAIN last.obs.messages :
         Len(last.obs.messages[i].payload) <= MAX_MESSAGE_LEN
    /\ \A x \in Senders :
         \E i \in DOMAIN last.obs.messages :
           /\ last.obs.messages[i].src_uid = x
           /\ last.obs.messages[i].payload = Prefix(Sent(x), MAX_MESSAGE_LEN)

\* the in-bounds cells within the radius of the centre, by the shape's metric
Footprint(g, c, radius, shape) ==
  {q \in Cells(g) :
     LET dx == Abs(q[1] - c[1])
         dy == Abs(q[2] - c[2])
     IN IF shape = "MANHATTAN" THEN dx + dy <= radius
        ELSE (dx <= radius /\ dy <= radius)}

\* tiles lists exactly these cells, once each, by row and then by column,
\* each labelled by whether it is walkable
ListsFootprint(tiles, g, cells) ==
  /\ Len(tiles) = Cardinality(cells)
  /\ {tiles[i].pos : i \in DOMAIN tiles} = cells
  /\ \A i, j \in DOMAIN tiles :
       i < j => \/ tiles[i].pos[2] < tiles[j].pos[2]
                \/ /\ tiles[i].pos[2] = tiles[j].pos[2]
                   /\ tiles[i].pos[1] < tiles[j].pos[1]
  /\ \A i \in DOMAIN tiles :
       tiles[i].tile = IF WalkableCell(tiles[i].pos) THEN "floor" ELSE "wall"

\* the last call was observe() of an agent of that world that has a position
ObservedAttached ==
  /\ last.op = "observe"
  /\ last.pre.agent_world[last.agent] = last.world
  /\ last.pre.pos[last.agent] # None

\* C17: observe() of an attached agent returns, for the agent's sensor
\* radius and shape, exactly the in-bounds cells of the footprint around its
\* position, once each, ordered by dy then dx, labelled "floor" or "wall",
\* the centre among them.
C17_SensorFootprint ==
  ObservedAttached =>
    /\ last.ok
    /\ \E radius \in 0..MaxRadius, shape \in SensorShapes :
         ListsFootprint(last.obs.tiles, grid,
                        Footprint(grid, last.pre.pos[last.agent], radius, shape))
    /\ \E i \in DOMAIN last.obs.tiles :
         last.obs.tiles[i].pos = last.pre.pos[last.agent]

\* C18: observe(agent) fails exactly when the agent is not attached to this
\* world or has no position; failing or not, it changes neither the tick
\* count, the roster, a position nor a pending action; an observe() that
\* follows another of the same agent with no call in between returns an
\* equal Observation, whose tick is the tick count.
C18_ObservePure ==
  last.op = "observe" =>
    /\ ~last.ok <=> ~ObservedAttached
    /\ ~last.ok => last.exc = "ValueError"
    /\ Visible(last.world) = last.pre
    /\ last.again => (last.before.ok = last.ok /\ last.before.obs = last.obs)
    /\ last.ok => last.obs.tick = worlds[last.world].tick

\* the "rng" events of the last tick, in order
Draws == SelectSeq(last.events, LAMBDA e : e.name = "rng")

\* C19: reset(seed) leaves tick_count 0, an empty roster (snapshot() is
\* {tick 0, no positions}), the systems as registered and a generator that
\* depends on the seed alone; the tick right after it returns tick 1 with no
\* event about an agent; and the draws of a seeded world are the draws of its
\* seed, in order, counted from the reset.
C19_Reset ==
  /\ last.op = "reset" =>
       LET W == worlds[last.world]
       IN /\ W.tick = 0
          /\ W.agents = <<>>
          /\ WorldSnapshot(W, uid, pos) = [tick |-> 0, positions |-> EmptyDict]
          /\ W.systems = last.pre.systems
          /\ W.seed = last.seed
          /\ last.seed # 0 => W.rng = [seed |-> last.seed, n |-> 0]
  /\ (TickDone /\ last.pre.agents = <<>>) =>
       /\ \A i \in DOMAIN last.events : "agent" \notin DOMAIN last.events[i].data
       /\ last.state.positions = EmptyDict
       /\ last.pre.tick = 0 => last.state.tick = 1
  /\ (TickDone /\ worlds[last.world].seed # 0) =>
       \A i \in DOMAIN Draws :
         Draws[i].data.x =
           RngRandom([seed |-> worlds[last.world].seed,
                      n |-> worlds[last.world].rng.n - Len(Draws) + i - 1]).x

\* the first tick after a seeded reset that emptied a roster, with an
\* RngSystem registered before the reset
C19_Witness ==
  /\ TickDone
  /\ worlds[last.world].seed # 0
  /\ last.pre.tick = 0 /\ last.pre.agents = <<>>
  /\ \E a \in Objs : agent_world[a] = last.world
  /\ Len(Draws) = 2

\* objects are numbered in the order of their construction: every uid is
\* greater than the uid of every object constructed before
UidsIncrease ==
  \A a, b \in Objs : (a < b /\ uid[a] # 0 /\ uid[b] # 0) => uid[a] < uid[b]

\* spawn, tick and reset leave every uid and both counters alone
UidsKept ==
  last'.op \in {"spawn", "tick", "reset"} =>
    UNCHANGED <<uid, next_uid, pkg_next_uid>>

\* C20: through any exposed Agent class, each new uid is greater than every
\* uid assigned before (so no two agents share one), and no World operation
\* changes a uid or a counter.
C20_UidAllocation == []UidsIncrease /\ [][UidsKept]_vars

\* C21: get(pos) and set(pos, tile) fail exactly when pos is outside
\* [0,width) x [0,height), with the out-of-bounds error; a failed set and a
\* get leave the grid as it was; a successful set(pos, t) makes get(pos)
\* return t, leaves the tile of every other cell unchanged and never changes
\* width or height.
C21_GridAccess ==
  /\ last.op = "get" =>
       /\ (last.result = "IndexError") <=> (last.pos \notin Cells(last.pre))
       /\ grid = last.pre
  /\ last.op = "set" =>
       /\ last.ok <=> (last.pos \in Cells(last.pre))
       /\ grid.width = last.pre.width /\ grid.height = last.pre.height
       /\ ~last.ok => (last.exc = "IndexError" /\ grid = last.pre)
       /\ last.ok =>
            /\ GridGet(grid, last.pos) = last.tile
            /\ \A c \in Cells(grid) \ {last.pos} :
                 GridGet(grid, c) = GridGet(last.pre, c)

\* a set that changed the tile of a cell of the second row on a grid that
\* is wider than high and has a wall elsewhere
C21_Witness ==
  /\ last.op = "set" /\ last.ok
  /\ GridGet(last.pre, last.pos) # last.tile
  /\ last.pos[2] = 1 /\ grid.width > grid.height
  /\ \E c \in Cells(grid) \ {last.pos} : GridGet(grid, c) = "Wall"

\* the orders in which the agents of a roster can have been spawned
Orders(roster) ==
  {s \in [DOMAIN roster -> Range(roster)] : Range(s) = Range(roster)}

\* the tick `last` records, run again from the state before it on the roster
\* in another order; a tick of world.py records its locals, the package's
\* tick does not
Retick(roster) ==
  LET W == [worlds[last.world] EXCEPT !.tick = last.pre.tick, !.agents = roster]
  IN IF "positions" \in DOMAIN last
     THEN WorldTick(W, uid, last.pre.pos, last.pre.queued, grid)
     ELSE PkgWorldTick(W, uid, last.pre.pos, last.pre.queued, grid)

\* C22: with no systems, a tick emits exactly one core event per rostered
\* agent, in strictly ascending uid order, and its events and the positions
\* it leaves are the same for every order in which the agents were spawned.
C22_OrderIndependence ==
  (TickDone /\ worlds[last.world].systems = <<>>) =>
    /\ Len(last.events) = Len(last.pre.agents)
    /\ \A i \in DOMAIN last.events :
         /\ last.events[i].name \in CoreEventNames
         /\ \E a \in Rostered : last.events[i].data.agent = uid[a]
    /\ \A i, j \in DOMAIN last.events :
         i < j => last.events[i].data.agent < last.events[j].data.agent
    /\ \A roster \in Orders(last.pre.agents) :
         /\ Retick(roster).events = last.events
         /\ Retick(roster).pos = pos

\* the observation a successful observe() returned
Seen == {last.obs.tiles[i].pos : i \in DOMAIN last.obs.tiles}

\* the uids of the agents of the observed world that stand on a returned tile
InSight ==
  {uid[b] : b \in {c \in Objs : /\ agent_world[c] = last.world
                                /\ pos[c] # None /\ pos[c] \in Seen}}

\* what C23 asks of the entities of a successful observe()
SelfVisible ==
  LET ents == last.obs.entities
  IN /\ \E i \in DOMAIN ents : /\ ents[i].uid = uid[last.agent]
                               /\ ents[i].pos = last.obs.self_pos
     /\ \A i, j \in DOMAIN ents : i < j => ents[i].uid < ents[j].uid
     /\ {ents[i].uid : i \in DOMAIN ents} = InSight
     /\ \A i \in DOMAIN ents : ents[i].pos = pos[CHOOSE b \in Objs : uid[b] = ents[i].uid]

\* C23: after any sequence of spawn, act, tick and reset calls, every
\* observe(agent) that succeeds returns entities that contain the observing
\* agent at self_pos and list, in ascending uid order and each once, exactly
\* the agents of this world that stand on one of the returned tiles.
C23_SelfVisibility ==
  (last.op = "attach_observe" /\ last.ok) => SelfVisible

\* no roster holds an agent twice, no agent is in two rosters, a rostered
\* agent refers to the world of its roster, and a spawn of an agent that
\* already had a world failed and changed nothing
Attached ==
  /\ \A w \in Worlds : \A i, j \in DOMAIN worlds[w].agents :
       worlds[w].agents[i] = worlds[w].agents[j] => i = j
  /\ \A w \in Worlds : \A a \in Range(worlds[w].agents) : agent_world[a] = w
  /\ (last.op = "spawn" /\ last.pre.world # 0) =>
       /\ ~last.ok /\ last.exc = "ValueError"
       /\ agent_world[last.agent] = last.pre.world
       /\ pos[last.agent] = last.pre.pos
       /\ worlds[last.world].agents = last.pre.agents

\* a step never clears or changes a reference that is set; a roster changes
\* only by a reset of its world or by a successful spawn, which appends an
\* agent that had no world before
AttachmentKept ==
  /\ \A a \in Objs : agent_world[a] # 0 => agent_world'[a] = agent_world[a]
  /\ \A w \in Worlds :
       \/ worlds'[w].agents = worlds[w].agents
       \/ /\ last'.op = "reset" /\ last'.world = w
          /\ worlds'[w].agents = <<>>
       \/ /\ last'.op = "spawn" /\ last'.world = w /\ last'.ok
          /\ agent_world[last'.agent] = 0
          /\ worlds'[w].agents = Append(worlds[w].agents, last'.agent)

\* C24: once spawn() has set an agent's world, no call clears or changes it;
\* an agent enters a roster at most once, a second spawn of it fails, and
\* between resets a roster only grows, in spawn order.
C24_AttachmentPermanent == []Attached /\ [][AttachmentKept]_vars

\* a failed spawn, into the other world, of an agent that a reset dropped
\* from the roster of its own world
C24_Witness ==
  /\ last.op = "spawn" /\ ~last.ok
  /\ last.pre.world # 0 /\ last.pre.world # last.world
  /\ last.agent \notin Range(worlds[last.pre.world].agents)
  /\ worlds[last.world].agents # <<>>

\* the rostered agents stand on pairwise distinct cells under positions p
DistinctCells(p) ==
  \A a, b \in Rostered : a # b => p[a] # p[b]

\* C25: under the BLOCK policy with no systems, a tick that starts with the
\* rostered agents on pairwise distinct cells leaves them on pairwise
\* distinct cells, whatever actions they hold.
C25_CellExclusivity ==
  ( /\ TickDone
    /\ worlds[last.world].collision_policy = "BLOCK"
    /\ worlds[last.world].systems = <<>>
    /\ DistinctCells(last.pre.pos) ) => DistinctCells(pos)

\* C26: with the grid left as it was at the first spawn and no system that
\* writes positions, in every state reached by spawn, act, tick and observe
\* every rostered agent has a position, the position is a walkable cell of
\* the grid, and the keys of snapshot().positions are the rostered uids.
C26_PositionValidity ==
  \A w \in Worlds :
    /\ \A a \in Range(worlds[w].agents) : pos[a] # None /\ WalkableCell(pos[a])
    /\ DOMAIN WorldSnapshot(worlds[w], uid, pos).positions =
         {uid[a] : a \in Range(worlds[w].agents)}

\* after a tick in which one rostered agent moved and another was blocked
\* by the wall
C26_Witness ==
  /\ TickDone
  /\ \E a, b \in Rostered :
       /\ EventIdx("moved", uid[a]) # {}
       /\ EventIdx("blocked", uid[b]) # {}
       /\ last.blocked_targets[uid[b]] = WallAt
  /\ DOMAIN last.state.positions = {uid[a] : a \in Rostered}

\* the four cardinal neighbours of a position
Neighbours(p) ==
  {<<p[1], p[2] - 1>>, <<p[1] + 1, p[2]>>, <<p[1], p[2] + 1>>, <<p[1] - 1, p[2]>>}

\* the tick emitted "moved" for agent a
Moved(a) == a \in Rostered /\ EventIdx("moved", uid[a]) # {}

\* after a tick without systems: the agents whose position changed are the
\* agents with a "moved" event, each one step away from where it was and on
\* the event's `to`; the agents with another event are where they were; the
\* roster is the roster of before
MovementFrame ==
  (last.op = "tick" /\ worlds[last.world].systems = <<>>) =>
    /\ \A a \in {b \in Objs : uid[b] # 0} :
         /\ (pos[a] # last.pre.pos[a]) <=> Moved(a)
         /\ Moved(a) =>
              /\ pos[a] \in Neighbours(last.pre.pos[a])
              /\ \A i \in EventIdx("moved", uid[a]) : last.events[i].data.to = pos[a]
    /\ \A a \in Rostered :
         (\E name \in {"waited", "blocked", "collision", "unknown_action"} :
            EventIdx(name, uid[a]) # {}) => pos[a] = last.pre.pos[a]
    /\ worlds[last.world].agents = last.pre.agents

\* a tick step leaves the grid, every roster and every list of systems alone
TickFrame ==
  last'.op = "tick" =>
    /\ grid' = grid
    /\ \A w \in Worlds : /\ worlds'[w].agents = worlds[w].agents
                         /\ worlds'[w].systems = worlds[w].systems

\* C27: in a tick with no systems an agent's position changes if and only if
\* the tick emitted "moved" for it, and then to a cardinal neighbour that is
\* the event's `to`; agents with another event keep their position; the
\* tick changes neither the grid's tiles, nor the roster, nor the systems.
C27_MovementFrame == []MovementFrame /\ [][TickFrame]_vars

\* a tick in which one agent moved and another, holding an action the tick
\* does not know, stayed
C27_Witness ==
  /\ TickDone
  /\ \E a, b \in Rostered :
       /\ Moved(a) /\ pos[a] # last.pre.pos[a]
       /\ EventIdx("unknown_action", uid[b]) # {}
       /\ pos[b] = last.pre.pos[b]

====
